---- MODULE Spec2Model ----
(***************************************************************************)
(* The three figure scripts of the thesis repository                       *)
(*   cosmological_horizon.py, cosmological_parameters.py,                  *)
(*   pipeline_data_size.py                                                 *)
(* as run by the Python interpreter, and their helper functions            *)
(* convert_bytes, mode and get_aspect.                                     *)
(*                                                                         *)
(* A script is a sequence of top-level statements.  The interpreter first  *)
(* compiles the whole file (a SyntaxError ends the run before any          *)
(* statement is executed) and then executes the statements top to bottom,  *)
(* binding names in the module namespace; reading an unbound name raises   *)
(* NameError and ends the run.                                             *)
(***************************************************************************)
EXTENDS Integers, Sequences, FiniteSets, TLC

VARIABLES
    fs,         \* files in the working directory
    pc,         \* per script: 0 = not started, i = next statement, Len+1 = past the end
    status,     \* per script: "idle", "running", "ok", "SyntaxError", "NameError"
    env,        \* per script: the names bound in the module namespace
    stdout,     \* per script: the lines printed so far
    x_cumsum,   \* pipeline_data_size: <<>> while unbound, else <<value>>
    call,       \* the helper call being evaluated (function name and arguments)
    ret,        \* the outcome of that call
    prev        \* the previous helper call and its outcome

vars == <<fs, pc, status, env, stdout, x_cumsum, call, ret, prev>>

scriptVars == <<fs, pc, status, env, stdout, x_cumsum>>
callVars == <<call, ret, prev>>

Scripts == {"cosmological_horizon", "cosmological_parameters", "pipeline_data_size"}

Stylesheet == "mnras.mplstyle"

Notice == "Matplotlib stylesheet mnras.mplstyle not found ... Reverting to default."

\* Names every module can read without binding them.
Builtins == {"print", "len", "zip", "range", "enumerate", "dict"}

(***************************************************************************)
(* Python integers are unbounded.  A non-negative integer is kept as its   *)
(* base-1024 digits, least significant first, without leading zeros; the   *)
(* empty sequence is 0.                                                    *)
(***************************************************************************)
Base == 1024

Zero == <<>>

Max(a, b) == IF a >= b THEN a ELSE b
Min(a, b) == IF a <= b THEN a ELSE b

RECURSIVE Norm(_)
Norm(a) ==
    IF a = <<>> THEN a
    ELSE IF a[Len(a)] = 0 THEN Norm(SubSeq(a, 1, Len(a) - 1)) ELSE a

Limb(a, i) == IF i >= 1 /\ i <= Len(a) THEN a[i] ELSE 0

RECURSIVE FromInt(_)
FromInt(n) == IF n = 0 THEN <<>> ELSE <<n % Base>> \o FromInt(n \div Base)

RECURSIVE AddFrom(_, _, _, _)
AddFrom(a, b, i, c) ==
    IF i > Max(Len(a), Len(b))
    THEN IF c = 0 THEN <<>> ELSE <<c>>
    ELSE LET v == Limb(a, i) + Limb(b, i) + c
         IN  <<v % Base>> \o AddFrom(a, b, i + 1, v \div Base)

Plus(a, b) == Norm(AddFrom(a, b, 1, 0))

RECURSIVE MulFrom(_, _, _, _)
MulFrom(a, k, i, c) ==
    IF i > Len(a)
    THEN FromInt(c)
    ELSE LET v == a[i] * k + c
         IN  <<v % Base>> \o MulFrom(a, k, i + 1, v \div Base)

\* a * k for a machine-sized k.
Times(a, k) == Norm(MulFrom(a, k, 1, 0))

\* 1024 ** k
RECURSIVE Pow1024(_)
Pow1024(k) == IF k = 0 THEN <<1>> ELSE <<0>> \o Pow1024(k - 1)

\* a < b, a = b
RECURSIVE LessFrom(_, _, _)
LessFrom(a, b, i) ==
    IF i = 0 THEN FALSE
    ELSE IF Limb(a, i) # Limb(b, i) THEN Limb(a, i) < Limb(b, i)
    ELSE LessFrom(a, b, i - 1)

Less(a, b) == LessFrom(a, b, Max(Len(a), Len(b)))
LessEq(a, b) == ~Less(b, a)

(***************************************************************************)
(* The literal tables of pipeline_data_size.py.                            *)
(***************************************************************************)
palette_ref == <<"#ef476f", "#ffd166", "#06d6a0", "#A768FF">>

\* n copies of x: [x] * n
Rep(x, n) == [i \in 1..n |-> x]

\* colors with the first two categories miscounted: 5 and 6 entries.
colorsMiscounted ==
    Rep("#ef476f", 5) \o Rep("#ffd166", 6) \o Rep("#06d6a0", 2) \o Rep("#A768FF", 2)

colors ==
    Rep("#ef476f", 6) \o Rep("#ffd166", 5) \o Rep("#06d6a0", 2) \o Rep("#A768FF", 2)

label ==
    << "Panphasian descriptor + cosmology", "Panphasia inputs", "Glass file",
       "Initial conditions", "Snapshots", "Halo catalogues",
       "Object selection", "Zoom mask", "Zoom initial conditions",
       "Snapshots DMO", "Halo catalogues DMO",
       "Sub-grid calibration", "Fiducial simulation",
       "Data products", "Plots & insights" >>

\* The literals above 2^31, by their base-1024 digits.
Lit4339072582 == <<582, 63, 42, 4>>
Lit27711872475 == <<475, 103, 828, 25>>
Lit24796451415 == <<599, 756, 95, 23>>
Lit19728229448 == <<72, 313, 382, 18>>
Lit45859195689 == <<809, 754, 726, 42>>

byte_size ==
    << FromInt(69 + 6 * 4 + 7 * 16),
       FromInt(44),
       Times(FromInt(2948), 1024),
       Times(Lit4339072582, 1024),
       Times(FromInt(285253668), 1024),
       Times(FromInt(20303636), 1024),
       FromInt(30 * 4),
       Times(FromInt(6604), 1024),
       Times(FromInt(747403724), 1024),
       Times(FromInt(573958792), 1024),
       Times(FromInt(154754024), 1024),
       Plus(Times(Plus(Plus(Lit27711872475, Lit24796451415), Lit19728229448), 1024),
            Times(Pow1024(4), 9)),
       Times(Lit45859195689, 1024),
       Times(FromInt(437), 1024),
       Times(FromInt(47), 1024) >>

\* np.arange(len(byte_size)): 0, 1, ..., len - 1
process_id == [i \in 1..Len(byte_size) |-> i - 1]

\* zip stops at the shortest of its arguments.
ZipLen == Min(Min(Len(process_id), Len(byte_size)), Min(Len(colors), Len(label)))

\* x_cumsum after the first n iterations of the plotting loop.
RECURSIVE CumSum(_)
CumSum(n) == IF n = 0 THEN Zero ELSE Plus(CumSum(n - 1), byte_size[n])

\* The sum of the first n entries of the table, last entry first.
RECURSIVE SumOf(_, _)
SumOf(t, n) == IF n = 0 THEN Zero ELSE Plus(t[n], SumOf(t, n - 1))

(***************************************************************************)
(* Python floats are IEEE-754 binary64: 53 significant bits.               *)
(***************************************************************************)
MantissaBits == 53

RECURSIVE BitLen(_)
BitLen(d) == IF d = 0 THEN 0 ELSE 1 + BitLen(d \div 2)

\* The number of bits of the integer a.
Bits(a) == IF a = <<>> THEN 0 ELSE 10 * (Len(a) - 1) + BitLen(a[Len(a)])

\* float(a) for a Python int a, as the integer it equals: a rounded to 53
\* significant bits, ties to even.
RoundToFloat(a) ==
    IF Bits(a) <= MantissaBits THEN a
    ELSE LET s == Bits(a) - MantissaBits       \* bits dropped
             q == s \div 10                     \* whole digits dropped
             r == s % 10                        \* bits dropped of digit q + 1
             d == a[q + 1]
             low == d % (2 ^ r)
             lsb == (d \div (2 ^ r)) % 2
             guard == IF r >= 1 THEN low >= 2 ^ (r - 1) ELSE a[q] >= 512
             below == \E j \in 1..(IF r >= 1 THEN q ELSE q - 1) : a[j] # 0
             sticky == IF r >= 1 THEN (low % (2 ^ (r - 1)) # 0) \/ below
                       ELSE (a[q] % 512 # 0) \/ below
             kept == [j \in 1..Len(a) |->
                        IF j <= q THEN 0 ELSE IF j = q + 1 THEN d - low ELSE a[j]]
             ulp == [j \in 1..(q + 1) |-> IF j = q + 1 THEN 2 ^ r ELSE 0]
         IN  IF guard /\ (sticky \/ lsb = 1) THEN Plus(kept, ulp) ELSE kept

(***************************************************************************)
(* convert_bytes.  The running value num is n / 1024^sh: the int argument  *)
(* (sh = 0, isfloat = FALSE) or the float left by sh divisions by 1024.0,  *)
(* which are exact once the int has been converted.                        *)
(***************************************************************************)
Units == <<"bytes", "KB", "MB", "GB", "TB", "PB">>

IntNum(n) == [n |-> n, sh |-> 0, isfloat |-> FALSE]

\* num < 1024.0
Below1024(num) == Len(num.n) <= num.sh + 1

\* num /= 1024.0
Div1024(num) ==
    [n |-> IF num.isfloat THEN num.n ELSE RoundToFloat(num.n),
     sh |-> num.sh + 1, isfloat |-> TRUE]

None == [kind |-> "None", whole |-> 0, tenth |-> 0, unit |-> ""]

\* 10 * (f / 1024^sh) rounded to an integer, 0..10, for a fraction
\* f / 1024^sh < 1: the exact binary value, ties to the even digit.
Tenths(f, sh) ==
    LET t == MulFrom(f, 10, 1, 0)
        c == Limb(t, sh + 1)
        top == Limb(t, sh)
        rest == \E j \in 1..(sh - 1) : Limb(t, j) # 0
        up == top > 512 \/ (top = 512 /\ (rest \/ c % 2 = 1))
    IN  IF sh = 0 THEN 0 ELSE IF up THEN c + 1 ELSE c

\* f"{num:3.1f} {unit}" for 0 <= num: the value to one decimal and the unit.
CarryDropped(num, unit) ==
    LET t == Tenths(SubSeq(num.n, 1, Min(Len(num.n), num.sh)), num.sh)
    IN  [kind |-> "size", whole |-> Limb(num.n, num.sh + 1), tenth |-> t % 10,
         unit |-> unit]

Format(num, unit) ==
    LET t == Tenths(SubSeq(num.n, 1, Min(Len(num.n), num.sh)), num.sh)
        w == Limb(num.n, num.sh + 1)
    IN  [kind |-> "size", whole |-> IF t = 10 THEN w + 1 ELSE w,
         tenth |-> t % 10, unit |-> unit]

UnitOnly(unit) == [kind |-> "label", whole |-> 0, tenth |-> 0, unit |-> unit]

\* num <= 1024.0 in place of num < 1024.0
BelowOrAt1024(num) ==
    Below1024(num) \/ num.n = [j \in 1..(num.sh + 2) |-> IF j = num.sh + 2 THEN 1 ELSE 0]

Fits(num) == Below1024(num)

\* The loop over the unit labels, from label i on.
RECURSIVE ConvertFrom(_, _, _)
ConvertFrom(num, i, unit_only) ==
    IF i > Len(Units) THEN None
    ELSE IF Fits(num)
         THEN IF unit_only THEN UnitOnly(Units[i]) ELSE Format(num, Units[i])
         ELSE ConvertFrom(Div1024(num), i + 1, unit_only)

convert_bytes(num, unit_only) == ConvertFrom(IntNum(num), 1, unit_only)

(***************************************************************************)
(* Float arithmetic (IEEE-754 binary64, round to nearest, ties to even).   *)
(* A finite float is (-1)^neg * m * 2^e with the significand m an integer  *)
(* below 2^53 kept by its base-1024 digits, and either m >= 2^52 or        *)
(* e = EMin (zero and the subnormals).                                     *)
(***************************************************************************)
EMin == -1074
EMax == 971

Finite(neg, m, e) == [cls |-> "finite", neg |-> neg, m |-> m, e |-> e]
FZero(neg) == Finite(neg, Zero, EMin)
Inf(neg) == [cls |-> "inf", neg |-> neg, m |-> Zero, e |-> 0]
NaN == [cls |-> "nan", neg |-> FALSE, m |-> Zero, e |-> 0]
Raised(exc) == [cls |-> exc, neg |-> FALSE, m |-> Zero, e |-> 0]

IsNumber(x) == x.cls \in {"finite", "inf", "nan"}
IsZero(x) == x.cls = "finite" /\ x.m = Zero

\* Bit i (from 0) of the integer a; whether any of its s lowest bits is set.
Bit(a, i) == (Limb(a, (i \div 10) + 1) \div (2 ^ (i % 10))) % 2

AnyLowBits(a, s) ==
    \/ \E j \in 1..(s \div 10) : Limb(a, j) # 0
    \/ Limb(a, (s \div 10) + 1) % (2 ^ (s % 10)) # 0

\* a div 2^s and a * 2^k
ShiftRight(a, s) ==
    LET q == s \div 10
        r == s % 10
        b == IF q >= Len(a) THEN <<>> ELSE SubSeq(a, q + 1, Len(a))
    IN  Norm([j \in 1..Len(b) |->
                (b[j] \div (2 ^ r)) + (Limb(b, j + 1) % (2 ^ r)) * (2 ^ (10 - r))])

ShiftLeft(a, k) ==
    IF a = <<>> THEN a ELSE [j \in 1..(k \div 10) |-> 0] \o Times(a, 2 ^ (k % 10))

\* a - b for a >= b
RECURSIVE SubFrom(_, _, _, _)
SubFrom(a, b, i, borrow) ==
    IF i > Len(a) THEN <<>>
    ELSE LET v == a[i] - Limb(b, i) - borrow
         IN  <<IF v < 0 THEN v + Base ELSE v>>
             \o SubFrom(a, b, i + 1, IF v < 0 THEN 1 ELSE 0)

Minus(a, b) == Norm(SubFrom(a, b, 1, 0))

\* a * b
RECURSIVE MulAcc(_, _, _)
MulAcc(a, b, i) ==
    IF i > Len(b) THEN <<>>
    ELSE Plus(ShiftLeft(Times(a, b[i]), 10 * (i - 1)), MulAcc(a, b, i + 1))

BigMul(a, b) == MulAcc(a, b, 1)

\* Long division of a by b, one base-1024 digit of a at a time from the
\* top, each digit one bit at a time: the quotient q and remainder r so far.
RECURSIVE DivBits(_, _, _, _, _)
DivBits(d, b, i, q, r) ==
    IF i < 0 THEN [q |-> q, r |-> r]
    ELSE LET r2 == Plus(Times(r, 2), IF (d \div (2 ^ i)) % 2 = 1 THEN <<1>> ELSE <<>>)
             fits == ~Less(r2, b)
             q2 == IF fits THEN Plus(Times(q, 2), <<1>>) ELSE Times(q, 2)
             r3 == IF fits THEN Minus(r2, b) ELSE r2
         IN  IF Len(q2) >= 0 /\ Len(r3) >= 0
             THEN DivBits(d, b, i - 1, q2, r3)
             ELSE [q |-> q, r |-> r]

RECURSIVE DivFrom(_, _, _, _, _)
DivFrom(a, b, j, q, r) ==
    IF j = 0 THEN [q |-> q, r |-> r]
    ELSE LET step == DivBits(a[j], b, 9, q, r)
         IN  IF Len(step.q) >= 0 /\ Len(step.r) >= 0
             THEN DivFrom(a, b, j - 1, step.q, step.r)
             ELSE step

DivMod(a, b) == DivFrom(a, b, Len(a), Zero, Zero)

\* The float nearest to (-1)^neg * (n + f) * 2^e, where 0 <= f < 1 and
\* sticky tells f # 0 (n then has more than 55 bits).
RoundFloat(neg, n, e, sticky) ==
    IF n = Zero THEN FZero(neg)
    ELSE LET L == Bits(n)
             s == Max(L - MantissaBits, EMin - e)
         IN  IF s <= 0
             THEN LET k == Min(MantissaBits - L, e - EMin)
                  IN  IF e - k > EMax THEN Inf(neg)
                      ELSE Finite(neg, ShiftLeft(n, k), e - k)
             ELSE LET m0 == ShiftRight(n, s)
                      guard == Bit(n, s - 1) = 1
                      rest == AnyLowBits(n, s - 1) \/ sticky
                      up == guard /\ (rest \/ Bit(n, s) = 1)
                      m1 == IF up THEN Plus(m0, <<1>>) ELSE m0
                      carried == Bits(m1) > MantissaBits
                      m == IF carried THEN ShiftRight(m1, 1) ELSE m1
                      e1 == IF carried THEN e + s + 1 ELSE e + s
                  IN  IF m = Zero THEN FZero(neg)
                      ELSE IF e1 > EMax THEN Inf(neg)
                      ELSE Finite(neg, m, e1)

\* x * y
Mul(x, y) ==
    IF x.cls = "nan" \/ y.cls = "nan" THEN NaN
    ELSE IF x.cls = "inf" \/ y.cls = "inf"
         THEN IF IsZero(x) \/ IsZero(y) THEN NaN ELSE Inf(x.neg # y.neg)
    ELSE RoundFloat(x.neg # y.neg, BigMul(x.m, y.m), x.e + y.e, FALSE)

\* x / y as numpy computes it: a zero divisor gives inf or nan.
Div(x, y) ==
    IF x.cls = "nan" \/ y.cls = "nan" THEN NaN
    ELSE IF x.cls = "inf"
         THEN IF y.cls = "inf" THEN NaN ELSE Inf(x.neg # y.neg)
    ELSE IF y.cls = "inf" THEN FZero(x.neg # y.neg)
    ELSE IF IsZero(y)
         THEN IF IsZero(x) THEN NaN ELSE Inf(x.neg # y.neg)
    ELSE IF IsZero(x) THEN FZero(x.neg # y.neg)
    ELSE LET k == Max(0, 56 + Bits(y.m) - Bits(x.m))
             d == DivMod(ShiftLeft(x.m, k), y.m)
         IN  RoundFloat(x.neg # y.neg, d.q, x.e - y.e - k, d.r # Zero)

\* x / y for Python floats: a zero divisor raises.
PyDiv(x, y) ==
    IF ~IsNumber(x) THEN x
    ELSE IF ~IsNumber(y) THEN y
    ELSE IF IsZero(y) THEN Raised("ZeroDivisionError")
    ELSE Div(x, y)

PyMul(x, y) ==
    IF ~IsNumber(x) THEN x ELSE IF ~IsNumber(y) THEN y ELSE Mul(x, y)

\* float(n) for a Python int n >= 0: too large an int raises.
IntToFloat(n) ==
    LET f == RoundFloat(FALSE, n, 0, FALSE)
    IN  IF f.cls = "inf" THEN Raised("OverflowError") ELSE f

\* A Python int argument; an argument of either type as a float.
PyInt(n) == [cls |-> "int", neg |-> FALSE, m |-> n, e |-> 0]

AsFloat(v) == IF v.cls = "int" THEN IntToFloat(v.m) ELSE v

\* x < y for non-negative floats (the forms are canonical: a larger
\* exponent is a larger float).
FloatLess(x, y) ==
    IF x.cls = "inf" THEN FALSE
    ELSE IF y.cls = "inf" THEN TRUE
    ELSE IF IsZero(y) THEN FALSE
    ELSE IF IsZero(x) THEN TRUE
    ELSE IF x.e # y.e THEN x.e < y.e
    ELSE Less(x.m, y.m)

(***************************************************************************)
(* Statements.  lines: first and last source line; kind: import, def,      *)
(* assign, expr, try, for, savefig; defs: names the statement binds; uses: *)
(* names it reads when executed at module level; handlers: the clauses     *)
(* that follow a try block; parens: closing minus opening brackets of the  *)
(* statement; file: the file a savefig writes.                             *)
(***************************************************************************)
Stmt(first, last, kind, defs, uses) ==
    [lines |-> <<first, last>>, kind |-> kind, defs |-> defs, uses |-> uses,
     handlers |-> <<>>, parens |-> 0, file |-> ""]

TryStmt(first, last, handlers, uses) ==
    [Stmt(first, last, "try", {}, uses) EXCEPT !.handlers = handlers]

Unbalanced(first, last, uses, extra) ==
    [Stmt(first, last, "expr", {}, uses) EXCEPT !.parens = extra]

SaveFig(line, file) ==
    [Stmt(line, line, "savefig", {}, {"plt"}) EXCEPT !.file = file]

cosmological_horizon ==
    << Stmt(17, 20, "import", {"np", "plt", "cosmology", "const"}, {}),
       Stmt(22, 45, "def", {"get_aspect"}, {}),
       Stmt(48, 56, "def", {"mode"}, {}),
       TryStmt(60, 64, <<"else">>, {"plt", "print"}),
       Stmt(67, 67, "assign", {"palette_ref"}, {}),
       Stmt(70, 70, "assign", {"redshifts_p1"}, {"np"}),
       Stmt(71, 71, "assign", {"scale_factors"}, {"redshifts_p1"}),
       Stmt(74, 74, "assign", {"Hz_natural"}, {"cosmology", "redshifts_p1", "const"}),
       Stmt(77, 77, "assign", {"fig", "ax"}, {"plt"}),
       Stmt(79, 80, "expr", {}, {"ax", "scale_factors", "Hz_natural"}),
       Stmt(82, 99, "for", {"i", "l", "txt", "x_cross_id", "x_cross", "y_cross"},
            {"enumerate", "zip", "ax", "scale_factors", "mode", "palette_ref",
             "np", "Hz_natural", "plt"}),
       Stmt(101, 106, "expr", {}, {"ax"}),
       Stmt(109, 109, "assign", {"text_kwargs"}, {"dict"}),
       Stmt(110, 110, "assign", {"arrow_kwargs"}, {"dict"}),
       Stmt(111, 111, "assign", {"rotation_angle"}, {"np", "get_aspect", "ax"}),
       Stmt(113, 121, "expr", {},
            {"plt", "mode", "rotation_angle", "dict", "arrow_kwargs", "text_kwargs"}),
       Unbalanced(123, 130, {"plt", "mode", "rotation_angle", "text_kwargs"}, 1),
       Unbalanced(132, 139, {"plt", "mode", "rotation_angle", "text_kwargs"}, 1),
       Unbalanced(141, 148, {"plt", "dict", "arrow_kwargs", "text_kwargs"}, 1),
       Unbalanced(150, 156, {"plt", "dict", "arrow_kwargs", "text_kwargs"}, 1),
       SaveFig(159, "cosmological_horizon.pdf") >>

cosmological_parameters ==
    << Stmt(17, 20, "import", {"np", "plt", "transforms", "cosmology"}, {}),
       TryStmt(23, 27, <<"except">>, {"plt", "print"}),
       Stmt(30, 30, "assign", {"palette_ref"}, {}),
       Stmt(31, 31, "assign", {"palette_light"}, {}),
       Stmt(34, 34, "assign", {"redshifts_p1"}, {"np"}),
       Stmt(35, 35, "assign", {"scale_factors"}, {"redshifts_p1"}),
       Stmt(38, 38, "assign", {"fig", "axes"}, {"plt"}),
       Stmt(41, 41, "assign", {"ax"}, {"axes"}),
       Stmt(42, 42, "expr", {}, {"ax"}),
       Stmt(45, 52, "expr", {}, {"ax", "redshifts_p1", "cosmology", "palette_light"}),
       Stmt(55, 61, "expr", {},
            {"ax", "redshifts_p1", "cosmology", "palette_ref", "palette_light"}),
       Stmt(64, 70, "expr", {}, {"ax", "cosmology", "palette_ref", "palette_light"}),
       Stmt(72, 72, "assign", {"trans"}, {"transforms", "ax"}),
       Stmt(74, 82, "expr", {}, {"ax", "palette_ref", "trans"}),
       Stmt(85, 88, "expr", {}, {"ax"}),
       Stmt(90, 90, "assign", {"ax2"}, {"ax"}),
       Stmt(91, 93, "expr", {}, {"ax2"}),
       Stmt(96, 96, "assign", {"ax"}, {"axes"}),
       Stmt(97, 97, "expr", {}, {"ax"}),
       Stmt(100, 106, "expr", {},
            {"ax", "redshifts_p1", "cosmology", "palette_light", "palette_ref",
             "np", "scale_factors"}),
       Stmt(109, 119, "expr", {}, {"ax", "cosmology", "palette_light"}),
       Stmt(122, 126, "expr", {}, {"ax"}),
       Stmt(129, 129, "assign", {"matter_radiation_equality"}, {"cosmology"}),
       Stmt(130, 131, "expr", {}, {"ax", "axes", "matter_radiation_equality"}),
       Stmt(133, 133, "assign", {"matter_lambda_equality"}, {"cosmology"}),
       Stmt(134, 135, "expr", {}, {"ax", "axes", "matter_lambda_equality"}),
       Stmt(137, 139, "expr", {},
            {"ax", "matter_radiation_equality", "matter_lambda_equality",
             "palette_ref"}),
       Stmt(142, 142, "assign", {"trans"}, {"transforms", "ax"}),
       Stmt(143, 144, "assign", {"eras_label_kwargs"}, {"dict", "trans"}),
       Stmt(146, 150, "expr", {},
            {"ax", "eras_label_kwargs", "matter_radiation_equality",
             "matter_lambda_equality"}),
       SaveFig(153, "cosmological_parameters.pdf") >>

pipeline_data_size ==
    << Stmt(21, 26, "import",
            {"np", "interpolate", "plt", "transforms", "mpatches", "Line2D"}, {}),
       TryStmt(29, 33, <<"else">>, {"plt", "print"}),
       Stmt(36, 36, "assign", {"palette_ref"}, {}),
       Stmt(39, 60, "def", {"convert_bytes"}, {}),
       Stmt(63, 63, "assign", {"colors"}, {}),
       Stmt(66, 89, "assign", {"label"}, {}),
       Stmt(91, 91, "assign", {"byte_size"}, {"np", "byte_size"}),
       Stmt(92, 92, "assign", {"process_id"}, {"np", "len", "byte_size"}),
       Stmt(96, 115, "assign", {"byte_size"}, {}),
       Stmt(119, 119, "assign", {"fig", "axes"}, {"plt"}),
       Stmt(120, 125, "expr", {}, {"axes", "process_id", "range"}),
       Stmt(128, 128, "assign", {"bar_kwargs"}, {"dict"}),
       Stmt(131, 131, "assign", {"x_cumsum"}, {}),
       Stmt(132, 139, "for", {"y", "x", "c", "l", "x_cumsum"},
            {"zip", "process_id", "byte_size", "colors", "label", "x_cumsum", "axes"}),
       Stmt(142, 144, "for", {"i"}, {"range", "axes", "convert_bytes"}),
       Stmt(147, 152, "expr", {}, {"axes"}),
       Stmt(155, 158, "assign", {"handles"}, {"Line2D"}),
       Stmt(161, 161, "assign", {"legend_frame"}, {"axes", "handles"}),
       Stmt(164, 167, "expr", {}, {"axes", "palette_ref"}),
       Stmt(170, 170, "assign", {"trans"}, {"transforms", "axes"}),
       Stmt(171, 178, "assign", {"text_kwargs"}, {"dict", "trans"}),
       Stmt(179, 182, "expr", {}, {"axes", "text_kwargs"}),
       SaveFig(185, "pipeline_data_size.pdf") >>

Program(s) ==
    CASE s = "cosmological_horizon" -> cosmological_horizon
      [] s = "cosmological_parameters" -> cosmological_parameters
      [] s = "pipeline_data_size" -> pipeline_data_size

OutputFile(s) == Program(s)[Len(Program(s))].file

\* The compiler accepts a try statement only with an except or finally
\* clause, and a statement only with balanced brackets.
SyntaxOK(prog) ==
    \A i \in 1..Len(prog) :
        /\ prog[i].parens = 0
        /\ prog[i].kind = "try" =>
              \E h \in 1..Len(prog[i].handlers) :
                  prog[i].handlers[h] \in {"except", "finally"}

\* The names bound when statement i starts, if every earlier one succeeded.
BoundBefore(prog, i) ==
    Builtins \cup UNION {prog[j].defs : j \in 1..(i - 1)}

\* Every statement reads only names bound by the statements above it.
DefinedBeforeUse(prog) ==
    \A i \in 1..Len(prog) : prog[i].uses \subseteq BoundBefore(prog, i)

(***************************************************************************)
(* Running a script.                                                       *)
(***************************************************************************)
NoCall == [fn |-> "none"]

NoPrev == [call |-> NoCall, ret |-> None]

ScriptInit ==
    /\ fs \in {{}, {Stylesheet}}
    /\ pc = [s \in Scripts |-> 0]
    /\ status = [s \in Scripts |-> "idle"]
    /\ env = [s \in Scripts |-> {}]
    /\ stdout = [s \in Scripts |-> <<>>]
    /\ x_cumsum = <<>>

Init ==
    /\ ScriptInit
    /\ call = NoCall
    /\ ret = None
    /\ prev = NoPrev

\* python <script>.py: the file is compiled before anything runs.
Launch(s) ==
    /\ status[s] = "idle"
    /\ IF SyntaxOK(Program(s))
       THEN /\ status' = [status EXCEPT ![s] = "running"]
            /\ pc' = [pc EXCEPT ![s] = 1]
       ELSE /\ status' = [status EXCEPT ![s] = "SyntaxError"]
            /\ pc' = pc
    /\ UNCHANGED <<fs, env, stdout, x_cumsum, callVars>>

\* x_cumsum after statement st of script s: bound to 0 at line 131, then
\* run through the plotting loop of lines 132-139.
CumSumAfter(s, st, cur) ==
    IF s # "pipeline_data_size" THEN cur
    ELSE IF st.lines = <<131, 131>> THEN <<Zero>>
    ELSE IF st.lines = <<132, 139>> THEN <<CumSum(ZipLen)>>
    ELSE cur

\* One top-level statement of a running script.
Step(s) ==
    /\ status[s] = "running"
    /\ pc[s] \in 1..Len(Program(s))
    /\ LET st == Program(s)[pc[s]]
           last == pc[s] = Len(Program(s))
       IN  IF ~(st.uses \subseteq (env[s] \cup Builtins))
           THEN /\ status' = [status EXCEPT ![s] = "NameError"]
                /\ UNCHANGED <<fs, pc, env, stdout, x_cumsum>>
           ELSE /\ pc' = [pc EXCEPT ![s] = @ + 1]
                /\ env' = [env EXCEPT ![s] = @ \cup st.defs]
                /\ status' = [status EXCEPT ![s] = IF last THEN "ok" ELSE @]
                /\ stdout' = [stdout EXCEPT ![s] =
                                 IF st.kind = "try" /\ Stylesheet \notin fs
                                 THEN Append(@, Notice) ELSE @]
                /\ fs' = IF st.kind = "savefig" THEN fs \cup {st.file} ELSE fs
                /\ x_cumsum' = CumSumAfter(s, st, x_cumsum)
    /\ UNCHANGED callVars

Exited(s) == status[s] \in {"ok", "SyntaxError", "NameError"}

Next == \E s \in Scripts : Launch(s) \/ Step(s)

Spec == Init /\ [][Next]_vars

(***************************************************************************)
(* Calling convert_bytes.  The arguments are integers of at most MaxLimbs  *)
(* base-1024 digits: 0, the unit boundaries 1024^(L-1), the values         *)
(* 1024^L - 1 just below them, 1.25, 1.75 and 1000/1024 + 1 times a        *)
(* boundary (the ties of the one-decimal rounding, and a value rounding    *)
(* up), and 1024^L - 64, 1024^L - 65 (around the largest float below       *)
(* 1024^6).                                                                *)
(***************************************************************************)
MaxLimbs == 7

Boundary(L) == Pow1024(L - 1)
AllOnes(L) == [j \in 1..L |-> 1023]
Fraction(L, m) == [j \in 1..L |-> IF j = L THEN 1 ELSE IF j = L - 1 THEN m ELSE 0]
NearTop(L, l) == [j \in 1..L |-> IF j = 1 THEN l ELSE 1023]

ByteInputs ==
    {Zero}
    \cup {Boundary(L) : L \in 1..MaxLimbs}
    \cup {AllOnes(L) : L \in 1..MaxLimbs}
    \cup {Fraction(L, m) : L \in 2..MaxLimbs, m \in {256, 768, 1000}}
    \cup {NearTop(L, l) : L \in 2..MaxLimbs, l \in {959, 960}}

ConvertInit ==
    /\ ScriptInit
    /\ fs = {}
    /\ call = NoCall
    /\ ret = None
    /\ prev = NoPrev

CallConvertBytes ==
    /\ \E num \in ByteInputs, unit_only \in BOOLEAN :
          /\ call' = [fn |-> "convert_bytes", num |-> num, unit_only |-> unit_only]
          /\ ret' = convert_bytes(num, unit_only)
    /\ prev' = [call |-> call, ret |-> ret]
    /\ UNCHANGED scriptVars

ConvertNext == CallConvertBytes

SpecConvert == ConvertInit /\ [][ConvertNext]_vars

(***************************************************************************)
(* cosmological_horizon.py: mode and get_aspect.                           *)
(***************************************************************************)
\* np.pi, scipy.constants.parsec and the literal 1e6, as binary64.
pi == Finite(FALSE, <<280, 267, 324, 1005, 289, 6>>, -51)
parsec == Finite(FALSE, <<930, 457, 997, 18, 872, 6>>, 2)
Lit1e6 == Finite(FALSE, <<0, 0, 0, 512, 644, 7>>, -33)

\* mode with the quotient inverted: 4 pi * (wavelength * mode_conversion)
modeInverted(wavelength_mpc) ==
    LET mode_conversion == PyMul(parsec, Lit1e6)
    IN  PyMul(PyMul(AsFloat(PyInt(<<4>>)), pi),
              PyMul(AsFloat(wavelength_mpc), mode_conversion))

mode(wavelength_mpc) ==
    LET mode_conversion == PyMul(parsec, Lit1e6)
    IN  PyDiv(PyMul(AsFloat(PyInt(<<4>>)), pi),
              PyMul(AsFloat(wavelength_mpc), mode_conversion))

\* The names bound in the module namespace once every statement has run.
ModuleNames(prog) == BoundBefore(prog, Len(prog) + 1)

\* A whole number as a float.
IntAsFloat(k) ==
    RoundFloat(k < 0, FromInt(IF k < 0 THEN -k ELSE k), 0, FALSE)

\* The data extent of one axis.  lim is the pair ax.get_xlim() (or ylim):
\* on a log axis the decimal exponents of the limits, which are powers of
\* ten, so that np.log10 gives them back exactly; on a linear axis the
\* limits themselves, whole numbers.  The linear branch calls sub, which the
\* module must have bound.
Delta(scale, lim) ==
    IF scale = "log" THEN IntAsFloat(lim[2] - lim[1])
    ELSE IF "sub" \in ModuleNames(cosmological_horizon)
         THEN IntAsFloat(lim[1] - lim[2])
         ELSE Raised("NameError")

get_aspect(ax) ==
    LET disp_ratio == Div(Mul(ax.figH, ax.h), Mul(ax.figW, ax.w))
        delta_y == Delta(ax.yscale, ax.ylim)
        delta_x == Delta(ax.xscale, ax.xlim)
    IN  IF ~IsNumber(delta_y) THEN delta_y
        ELSE IF ~IsNumber(delta_x) THEN delta_x
        ELSE Div(disp_ratio, Div(delta_y, delta_x))

(***************************************************************************)
(* Calling mode and get_aspect, and dividing mode(l) by a scale factor as  *)
(* lines 84, 86 and 88 do.  Wavelengths: the integers the script passes    *)
(* and 0, the floats up to MaxUlps units in the last place above them, and *)
(* 1e300, whose product with mode_conversion overflows.  Scale factors:    *)
(* the two ends of the grid, 1 and 1e-9.                                   *)
(***************************************************************************)
MaxUlps == 2

ScriptWavelengths == {1, 10, 100, 1000, 30000, 280000}

\* The float k units in the last place above the float x.
UlpsAbove(x, k) == Finite(x.neg, Plus(x.m, FromInt(k)), x.e)

Lit1e300 == Finite(FALSE, <<412, 29, 128, 242, 996, 5>>, 944)

Wavelengths ==
    {PyInt(FromInt(n)) : n \in ScriptWavelengths \cup {0}}
    \cup {UlpsAbove(IntToFloat(FromInt(n)), k) : n \in ScriptWavelengths, k \in 1..MaxUlps}
    \cup {Lit1e300}

scale_factors ==
    { Finite(FALSE, <<0, 0, 0, 0, 0, 4>>, -52),             \* 1.0
      Finite(FALSE, <<661, 437, 642, 47, 302, 4>>, -82) }   \* 1e-9

\* The axes get_aspect is handed: the default figure (6.4 x 4.8 inches, the
\* axes 0.775 x 0.77 of it), each axis log or linear.
Lit6p4 == Finite(FALSE, <<410, 614, 409, 614, 409, 6>>, -50)
Lit4p8 == Finite(FALSE, <<819, 204, 819, 204, 819, 4>>, -50)
Lit0p775 == Finite(FALSE, <<205, 819, 204, 819, 204, 6>>, -53)
Lit0p77 == Finite(FALSE, <<164, 860, 163, 860, 163, 6>>, -53)

AxesInputs ==
    { [figW |-> Lit6p4, figH |-> Lit4p8, w |-> Lit0p775, h |-> Lit0p77,
       xscale |-> xs, yscale |-> ys, xlim |-> xl, ylim |-> yl] :
        xs \in {"log", "linear"}, ys \in {"log", "linear"},
        xl \in {<<-8, 0>>, <<0, 5>>}, yl \in {<<-25, -12>>, <<-5, 2>>} }

\* The results, computed once.
ModeOf == [l \in Wavelengths |-> mode(l)]

AspectOf == [ax \in AxesInputs |-> get_aspect(ax)]

\* mode(l) / a with a an element of the numpy array scale_factors
q(l, a) == IF IsNumber(ModeOf[l]) THEN Div(ModeOf[l], a) ELSE ModeOf[l]

QOf == [l \in Wavelengths, a \in scale_factors |-> q(l, a)]

\* The value of a wavelength argument as a float, for comparing arguments.
ValueOf(l) == AsFloat(l)

NumericInit ==
    /\ ScriptInit
    /\ fs = {}
    /\ call = NoCall
    /\ ret = None
    /\ prev = NoPrev

CallMode ==
    /\ \E l \in Wavelengths :
          /\ call' = [fn |-> "mode", wavelength_mpc |-> l]
          /\ ret' = ModeOf[l]
    /\ prev' = [call |-> call, ret |-> ret]
    /\ UNCHANGED scriptVars

CallQ ==
    /\ \E l \in Wavelengths, a \in scale_factors :
          /\ call' = [fn |-> "q", wavelength_mpc |-> l, a |-> a]
          /\ ret' = QOf[l, a]
    /\ prev' = [call |-> call, ret |-> ret]
    /\ UNCHANGED scriptVars

CallGetAspect ==
    /\ \E ax \in AxesInputs :
          /\ call' = [fn |-> "get_aspect", ax |-> ax]
          /\ ret' = AspectOf[ax]
    /\ prev' = [call |-> call, ret |-> ret]
    /\ UNCHANGED scriptVars

NumericNext == CallMode \/ CallQ \/ CallGetAspect

SpecNumeric == NumericInit /\ [][NumericNext]_vars

(***************************************************************************)
(* pipeline_data_size.py: the plotting loop's colour for each process and  *)
(* the category bands of lines 164-167.                                    *)
(***************************************************************************)
\* axes.axhspan(ymin, ymax, color=palette_ref[k]).  The limits are held in
\* halves (-0.5 is -1, 5.5 is 11), palette_ref is indexed from 0.
axhspans ==
    << [ymin |-> -1, ymax |-> 11, color |-> palette_ref[0 + 1]],
       [ymin |-> 11, ymax |-> 21, color |-> palette_ref[1 + 1]],
       [ymin |-> 21, ymax |-> 25, color |-> palette_ref[2 + 1]],
       [ymin |-> 25, ymax |-> 29, color |-> palette_ref[3 + 1]] >>

\* The band span lies over the row of process y: ymin <= y < ymax.
Covers(span, y) == span.ymin <= 2 * y /\ 2 * y < span.ymax

\* The bands over the row of process y.
BandsOver(y) == {k \in 1..Len(axhspans) : Covers(axhspans[k], y)}

\* The rows under band k.
RowsUnder(k) == {i \in 1..Len(process_id) : Covers(axhspans[k], process_id[i])}

BandsInit ==
    /\ ScriptInit
    /\ fs = {}
    /\ call = NoCall
    /\ ret = None
    /\ prev = NoPrev

\* One iteration of the loop of lines 132-139: y, x, c, l are the i-th
\* entries of process_id, byte_size, colors and label; the row is drawn at
\* y in colour c.
PlotProcess ==
    /\ \E i \in 1..ZipLen :
          /\ call' = [fn |-> "plot", y |-> process_id[i], c |-> colors[i]]
          /\ ret' = BandsOver(process_id[i])
    /\ prev' = [call |-> call, ret |-> ret]
    /\ UNCHANGED scriptVars

\* One of the axhspan calls of lines 164-167.
HighlightCategory ==
    /\ \E k \in 1..Len(axhspans) :
          /\ call' = [fn |-> "axhspan", span |-> axhspans[k]]
          /\ ret' = {process_id[i] : i \in RowsUnder(k)}
    /\ prev' = [call |-> call, ret |-> ret]
    /\ UNCHANGED scriptVars

BandsNext == PlotProcess \/ HighlightCategory

SpecBands == BandsInit /\ [][BandsNext]_vars

(***************************************************************************)
(* Properties.                                                             *)
(***************************************************************************)

\* C1: each script, run with no input, executes to its end and leaves its
\* image file behind; every statement reads only names bound above it.
\* (Stated as an invariant of every finished run; the code violates it.)
C1_EveryScriptCompletes ==
    \A s \in Scripts :
        Exited(s) => /\ status[s] = "ok"
                     /\ OutputFile(s) \in fs
                     /\ DefinedBeforeUse(Program(s))

\* The labels in the order of magnitude the claims speak of.
Labels == <<"bytes", "KB", "MB", "GB", "TB", "PB">>

Rank(u) == CHOOSE i \in 1..Len(Labels) : Labels[i] = u

IsConvert(c) == c.fn = "convert_bytes"

\* C2: convert_bytes(1024^k) is "1.0 <label k+1>" for k = 0..5, and just
\* the label with unit_only.
C2_UnitBoundary ==
    \A k \in 0..(Len(Labels) - 1) :
        (IsConvert(call) /\ call.num = Pow1024(k)) =>
            ret = IF call.unit_only
                  THEN [kind |-> "label", whole |-> 0, tenth |-> 0, unit |-> Labels[k + 1]]
                  ELSE [kind |-> "size", whole |-> 1, tenth |-> 0, unit |-> Labels[k + 1]]

C2_Witness ==
    /\ IsConvert(call) /\ call.num = Pow1024(5) /\ ~call.unit_only
    /\ ret = [kind |-> "size", whole |-> 1, tenth |-> 0, unit |-> "PB"]

\* C3: convert_bytes returns a string for every non-negative argument.
\* (The code violates it: from 1024^6 on the loop falls through.)
C3_AlwaysReturnsString ==
    IsConvert(call) => ret.kind \in {"size", "label"}

\* The value a "size" result reports, in tenths.
ValueLeq(r1, r2) ==
    r1.whole < r2.whole \/ (r1.whole = r2.whole /\ r1.tenth <= r2.tenth)

\* C8: for a <= b, both converted to a string, the unit of a is not a later
\* unit than that of b, and under the same unit the value of a is <= that
\* of b.
C8_Monotonic ==
    ( /\ IsConvert(prev.call) /\ IsConvert(call)
      /\ LessEq(prev.call.num, call.num)
      /\ prev.ret.kind # "None" /\ ret.kind # "None" ) =>
        /\ Rank(prev.ret.unit) <= Rank(ret.unit)
        /\ (prev.ret.unit = ret.unit /\ prev.ret.kind = "size" /\ ret.kind = "size")
              => ValueLeq(prev.ret, ret)

\* 1.25 KB, a rounding tie reported as 1.2, before 1023.999 KB, reported
\* as 1024.0.
C8_Witness ==
    /\ IsConvert(prev.call) /\ prev.call.num = <<256, 1>>
    /\ IsConvert(call) /\ call.num = <<1023, 1023>>
    /\ prev.ret = [kind |-> "size", whole |-> 1, tenth |-> 2, unit |-> "KB"]
    /\ ret = [kind |-> "size", whole |-> 1024, tenth |-> 0, unit |-> "KB"]

\* C5: without the style sheet a script prints the notice once and still
\* saves its figure; with the style sheet it prints nothing.
\* (Stated of every finished run; the code violates it.)
C5_StyleFallback ==
    \A s \in Scripts :
        Exited(s) =>
            IF Stylesheet \in fs
            THEN stdout[s] = <<>>
            ELSE stdout[s] = <<Notice>> /\ OutputFile(s) \in fs

\* C4: when the pipeline script is through its plotting loop, x_cumsum is
\* the sum of all entries of byte_size.
\* (Stated of every finished run; the code violates it.)
C4_CumulativeSum ==
    Exited("pipeline_data_size") =>
        x_cumsum = <<SumOf(byte_size, Len(byte_size))>>

\* C6: colors, label, byte_size and process_id all have 15 entries when the
\* pipeline script zips them, so no process is dropped.
\* (Stated of every finished run; the code violates it.)
C6_TableLengths ==
    Exited("pipeline_data_size") =>
        /\ {"colors", "label", "byte_size", "process_id"} \subseteq env["pipeline_data_size"]
        /\ Len(colors) = 15 /\ Len(label) = 15
        /\ Len(byte_size) = 15 /\ Len(process_id) = 15
        /\ ZipLen = 15

\* Two calls of q in a row with the same scale factor and positive
\* wavelengths l1 < l2.
QPair ==
    /\ prev.call.fn = "q" /\ call.fn = "q"
    /\ prev.call.a = call.a
    /\ FloatLess(FZero(FALSE), ValueOf(prev.call.wavelength_mpc))
    /\ FloatLess(ValueOf(prev.call.wavelength_mpc), ValueOf(call.wavelength_mpc))

\* C7 as stated: for positive wavelengths l1 < l2 and a positive scale
\* factor a, mode(l1) / a > mode(l2) / a.
C7_StrictlyDecreasing ==
    QPair => FloatLess(ret, prev.ret)

\* C7, amended: for positive wavelengths l1 < l2 and a positive scale
\* factor a, mode(l1) / a >= mode(l2) / a (floats one rounding apart may
\* share a value).
C7_NonIncreasing ==
    QPair => /\ IsNumber(prev.ret) /\ IsNumber(ret)
             /\ ~FloatLess(prev.ret, ret)

\* 30000 Mpc and the next float above it give the same q at a = 1e-9.
C7_Witness ==
    /\ QPair
    /\ prev.call.wavelength_mpc = PyInt(FromInt(30000))
    /\ call.wavelength_mpc = UlpsAbove(IntToFloat(FromInt(30000)), 1)
    /\ call.a.e = -82
    /\ prev.ret = ret

\* C9: mode returns a number for every (positive) wavelength, and
\* get_aspect returns disp_ratio / data_ratio for every axes configuration,
\* log or linear.  (The code violates it on a linear axis.)
C9_NoErrorConditions ==
    /\ (call.fn = "mode" /\ FloatLess(FZero(FALSE), ValueOf(call.wavelength_mpc)))
          => IsNumber(ret)
    /\ call.fn = "get_aspect" => IsNumber(ret)

\* C10: when the horizon script has run, a marker has been placed for each
\* plotted wavelength at its crossing (x_cross_id, x_cross and y_cross are
\* bound by the loop of lines 82-99).  (Stated of every finished run; the
\* code violates it.)
C10_CrossingMarkers ==
    Exited("cosmological_horizon") =>
        /\ status["cosmological_horizon"] = "ok"
        /\ {"x_cross_id", "x_cross", "y_cross"} \subseteq env["cosmological_horizon"]

\* C11: the colour of each process row is the colour of the one band over
\* it: every process id of the loop lies in exactly one band and is drawn in
\* that band's colour; the four bands are contiguous and do not overlap;
\* together they hold the rows 0..14 (0-5, 6-10, 11-12, 13-14).
C11_ColourMatchesBand ==
    /\ call.fn = "plot" =>
          /\ Cardinality(ret) = 1
          /\ \A k \in ret : axhspans[k].color = call.c
    /\ \A k \in 1..(Len(axhspans) - 1) : axhspans[k].ymax = axhspans[k + 1].ymin
    /\ \A k \in 1..Len(axhspans) : axhspans[k].ymin < axhspans[k].ymax
    /\ (call.fn = "axhspan" /\ prev.call.fn = "axhspan" /\ call.span # prev.call.span)
          => ret \cap prev.ret = {}
    /\ call.fn = "axhspan" =>
          ret = CASE call.span = axhspans[1] -> 0..5
                  [] call.span = axhspans[2] -> 6..10
                  [] call.span = axhspans[3] -> 11..12
                  [] call.span = axhspans[4] -> 13..14

\* Rows 5 and 6, either side of the first boundary, drawn one after the
\* other: the first in the parent band's colour, the second in the zoom
\* band's.
C11_Witness ==
    /\ prev.call.fn = "plot" /\ prev.call.y = 5
    /\ prev.ret = {1} /\ prev.call.c = palette_ref[1]
    /\ call.fn = "plot" /\ call.y = 6
    /\ ret = {2} /\ call.c = palette_ref[2]

====
